---- MODULE Spec2Model ----
(***************************************************************************)
(* Model of src/main.py: a FastAPI service with two static GET endpoints   *)
(* and seven POST endpoints that interpolate the request's fields into a   *)
(* prompt template and relay one call to the model provider.               *)
(*                                                                         *)
(* Strings are modelled as sequences of tokens, so that interpolation and  *)
(* concatenation are sequence concatenation and the empty string is <<>>.  *)
(* The Korean literals of the source are written as ASCII tokens:          *)
(*   '미지정' -> "UNSPECIFIED"      '없음' -> "NONE_KO"                    *)
(*   "최근 5년" -> "RECENT_5_YEARS" "원저" -> "ORIGINAL_ARTICLE"           *)
(*   "한국어" -> "KOREAN"           "단어" -> "WORDS"                      *)
(***************************************************************************)
EXTENDS Integers, Sequences, FiniteSets, TLC

VARIABLES
    req,          \* req[r]: the HTTP request of slot r (endpoint and JSON body)
    pc,           \* pc[r]: "idle", "queued", "calling" or "responded"
    loop,         \* the request whose coroutine blocks the event loop thread, 0 if none
    sent,         \* sent[r]: the provider calls issued for r, each its create() arguments
    message,      \* message[r]: what client.messages.create produced for r
    response,     \* response[r]: the HTTP response of r
    overlapped    \* whether a request has arrived while a provider call was outstanding

vars == <<req, pc, loop, sent, message, response, overlapped>>

----------------------------------------------------------------------------
(* Bounds *)

NumReqs == 2
MaxBlocks == 2
MaxBlocksConc == 1

Reqs == 1..NumReqs

----------------------------------------------------------------------------
(* JSON / Python values.  One record shape for all, so that any two values  *)
(* can be compared.                                                        *)

Absent  == [kind |-> "absent", s |-> <<>>, n |-> 0]
PyNone  == [kind |-> "none",   s |-> <<>>, n |-> 0]
PyStr(str) == [kind |-> "str", s |-> str,  n |-> 0]
PyInt(i)   == [kind |-> "int", s |-> <<>>, n |-> i]

Digits == <<"0", "1", "2", "3", "4", "5", "6", "7", "8", "9">>

RECURSIVE IntToStr(_)
\* str(n) of a non-negative int: its decimal digits
IntToStr(i) ==
    IF i < 10 THEN <<Digits[i + 1]>>
    ELSE IntToStr(i \div 10) \o <<Digits[(i % 10) + 1]>>

\* f"{v}": format a field value inside an f-string
Format(v) ==
    CASE v.kind = "str"  -> v.s
      [] v.kind = "int"  -> IntToStr(v.n)
      [] OTHER           -> <<"None">>

\* bool(v): Python truthiness
Truthy(v) ==
    CASE v.kind = "str"  -> v.s # <<>>
      [] v.kind = "int"  -> v.n # 0
      [] OTHER           -> FALSE

\* Or with the fallback lost: the value is interpolated as it is
Or_value(v, alt) == v

\* v or alt
Or(v, alt) == IF Truthy(v) THEN v ELSE alt

----------------------------------------------------------------------------
(* The request models, lines 31-73.  A field is                            *)
(* [name, type, optional, default]; a field with default Absent is         *)
(* required.                                                               *)

Fld(name, type, optional, default) ==
    [name |-> name, type |-> type, optional |-> optional, default |-> default]

TopicRequest ==
    << Fld("topic", "str", FALSE, Absent),
       Fld("field", "str", TRUE, PyStr(<<>>)),
       Fld("keywords", "str", TRUE, PyStr(<<>>)),
       Fld("purpose", "str", TRUE, PyStr(<<>>)) >>

LitReviewRequest ==
    << Fld("topic", "str", FALSE, Absent),
       Fld("field", "str", TRUE, PyStr(<<>>)),
       Fld("keywords", "str", TRUE, PyStr(<<>>)),
       Fld("scope", "str", TRUE, PyStr(<<"RECENT_5_YEARS">>)),
       Fld("known_papers", "str", TRUE, PyStr(<<>>)) >>

StructureRequest ==
    << Fld("topic", "str", FALSE, Absent),
       Fld("field", "str", TRUE, PyStr(<<>>)),
       Fld("keywords", "str", TRUE, PyStr(<<>>)),
       Fld("paper_type", "str", TRUE, PyStr(<<"ORIGINAL_ARTICLE">>)),
       Fld("methodology", "str", TRUE, PyStr(<<>>)) >>

IntroRequest ==
    << Fld("topic", "str", FALSE, Absent),
       Fld("field", "str", TRUE, PyStr(<<>>)),
       Fld("keywords", "str", TRUE, PyStr(<<>>)),
       Fld("language", "str", TRUE, PyStr(<<"KOREAN">>)) >>

AbstractRequest ==
    << Fld("topic", "str", FALSE, Absent),
       Fld("field", "str", TRUE, PyStr(<<>>)),
       Fld("keywords", "str", TRUE, PyStr(<<>>)),
       Fld("word_count", "int", TRUE, PyInt(250)),
       Fld("language", "str", TRUE, PyStr(<<"KOREAN">>)) >>

JournalRequest ==
    << Fld("topic", "str", FALSE, Absent),
       Fld("field", "str", TRUE, PyStr(<<>>)),
       Fld("keywords", "str", TRUE, PyStr(<<>>)),
       Fld("index_type", "str", TRUE, PyStr(<<"SCI/SCIE">>)) >>

ReviewRequest ==
    << Fld("topic", "str", FALSE, Absent),
       Fld("reviewer_comment", "str", FALSE, Absent),
       Fld("language", "str", TRUE, PyStr(<<"KOREAN">>)) >>

PostPaths ==
    { "/api/topic", "/api/literature", "/api/structure", "/api/introduction",
      "/api/abstract", "/api/journal", "/api/review-response" }

GetPaths == { "/", "/health" }

\* the request model each route's handler declares as its parameter
RequestModel(path) ==
    CASE path = "/api/topic"           -> TopicRequest
      [] path = "/api/literature"      -> LitReviewRequest
      [] path = "/api/structure"       -> StructureRequest
      [] path = "/api/introduction"    -> IntroRequest
      [] path = "/api/abstract"        -> AbstractRequest
      [] path = "/api/journal"         -> JournalRequest
      [] path = "/api/review-response" -> ReviewRequest
      [] OTHER                         -> << >>

FieldNames(path) == { RequestModel(path)[i].name : i \in DOMAIN RequestModel(path) }

FieldOf(path, name) ==
    LET m == RequestModel(path)
    IN  m[CHOOSE i \in DOMAIN m : m[i].name = name]

----------------------------------------------------------------------------
(* Validation of the JSON body against the request model (BaseModel).      *)

IsDigit(tok) == \E i \in DOMAIN Digits : Digits[i] = tok

RECURSIVE StrToInt(_)
StrToInt(str) ==
    IF str = <<>> THEN 0
    ELSE LET k == Len(str)
             d == CHOOSE i \in DOMAIN Digits : Digits[i] = str[k]
         IN  10 * StrToInt(SubSeq(str, 1, k - 1)) + (d - 1)

\* FieldOk with every field treated as having a default
FieldOk_lax(f, j) ==
    CASE j.kind = "absent" -> TRUE
      [] j.kind = "none"   -> f.optional
      [] j.kind = "str"    -> \/ f.type = "str"
                              \/ /\ f.type = "int"
                                 /\ j.s # <<>>
                                 /\ \A i \in DOMAIN j.s : IsDigit(j.s[i])
      [] j.kind = "int"    -> f.type = "int"
      [] OTHER             -> FALSE

\* whether JSON value j is accepted for field f
FieldOk(f, j) ==
    CASE j.kind = "absent" -> f.default # Absent
      [] j.kind = "none"   -> f.optional
      [] j.kind = "str"    -> \/ f.type = "str"
                              \/ /\ f.type = "int"
                                 /\ j.s # <<>>
                                 /\ \A i \in DOMAIN j.s : IsDigit(j.s[i])
      [] j.kind = "int"    -> f.type = "int"
      [] OTHER             -> FALSE

\* the attribute value the model instance gets for field f
FieldValue(f, j) ==
    CASE j.kind = "absent"                    -> f.default
      [] j.kind = "str" /\ f.type = "int"     -> PyInt(StrToInt(j.s))
      [] OTHER                                -> j

Valid(path, body) ==
    \A name \in FieldNames(path) : FieldOk(FieldOf(path, name), body[name])

Parse(path, body) ==
    [name \in FieldNames(path) |-> FieldValue(FieldOf(path, name), body[name])]

----------------------------------------------------------------------------
(* The prompt templates of the seven handlers.  A template's fixed text is  *)
(* one token per chunk; "L:<x>" is the label that precedes the value of a   *)
(* line ("연구 주제: " is "L:topic", "분야: " is "L:field", ...) and NL its  *)
(* line break.                                                             *)

NL == "\n"

Line(label, text) == <<label>> \o text \o <<NL>>

UNSPECIFIED == PyStr(<<"UNSPECIFIED">>)   \* '미지정'
NONE_KO     == PyStr(<<"NONE_KO">>)       \* '없음'

analyze_topic(m) ==
    <<"HEAD:topic", NL>>
    \o Line("L:topic", Format(m.topic))
    \o Line("L:field", Format(Or(m.field, UNSPECIFIED)))
    \o Line("L:keywords", Format(Or(m.keywords, UNSPECIFIED)))
    \o Line("L:purpose", Format(Or(m.purpose, UNSPECIFIED)))
    \o <<"TAIL:topic">>

literature_review(m) ==
    <<"HEAD:literature", NL>>
    \o Line("L:topic", Format(m.topic))
    \o Line("L:field", Format(Or(m.field, UNSPECIFIED)))
    \o Line("L:keywords", Format(Or(m.keywords, UNSPECIFIED)))
    \o Line("L:scope", Format(m.scope))
    \o Line("L:known_papers", Format(Or(m.known_papers, NONE_KO)))
    \o <<"TAIL:literature">>

paper_structure(m) ==
    <<"HEAD:structure", NL>>
    \o Line("L:topic", Format(m.topic))
    \o Line("L:field", Format(Or(m.field, UNSPECIFIED)))
    \o Line("L:keywords", Format(Or(m.keywords, UNSPECIFIED)))
    \o Line("L:paper_type", Format(m.paper_type))
    \o Line("L:methodology", Format(Or(m.methodology, UNSPECIFIED)))
    \o <<"TAIL:structure">>

write_introduction(m) ==
    <<"HEAD:introduction", NL>>
    \o Line("L:topic", Format(m.topic))
    \o Line("L:field", Format(Or(m.field, UNSPECIFIED)))
    \o Line("L:keywords", Format(Or(m.keywords, UNSPECIFIED)))
    \o Line("L:language", Format(m.language))
    \o <<"TAIL:introduction">>

generate_abstract(m) ==
    <<"HEAD:abstract", NL>>
    \o Line("L:topic", Format(m.topic))
    \o Line("L:field", Format(Or(m.field, UNSPECIFIED)))
    \o Line("L:keywords", Format(Or(m.keywords, UNSPECIFIED)))
    \o Line("L:word_count", Format(m.word_count) \o <<"WORDS">>)
    \o Line("L:language", Format(m.language))
    \o <<"TAIL:abstract">>

match_journal(m) ==
    <<"HEAD:journal", NL>>
    \o Line("L:topic", Format(m.topic))
    \o Line("L:field", Format(Or(m.field, UNSPECIFIED)))
    \o Line("L:keywords", Format(Or(m.keywords, UNSPECIFIED)))
    \o Line("L:index_type", Format(m.index_type))
    \o <<"TAIL:journal">>

review_response(m) ==
    <<"HEAD:review-response", NL>>
    \o Line("L:topic", Format(m.topic))
    \o Line("L:reviewer_comment", Format(m.reviewer_comment))
    \o Line("L:language", Format(m.language))
    \o <<"TAIL:review-response">>

\* the route table: the prompt the handler of `path` builds from its model m
Prompt(path, m) ==
    CASE path = "/api/topic"           -> analyze_topic(m)
      [] path = "/api/literature"      -> literature_review(m)
      [] path = "/api/structure"       -> paper_structure(m)
      [] path = "/api/introduction"    -> write_introduction(m)
      [] path = "/api/abstract"        -> generate_abstract(m)
      [] path = "/api/journal"         -> match_journal(m)
      [] path = "/api/review-response" -> review_response(m)

----------------------------------------------------------------------------
(* The provider call of call_claude, lines 297-302.                        *)

SYSTEM_PROMPT == <<"SYSTEM_PROMPT">>
max_tokens == 4000

\* CreateArgs with the system instruction and the prompt exchanged
CreateArgs_swapped(prompt) ==
    [ model      |-> "claude-sonnet-4-20250514",
      max_tokens |-> max_tokens,
      system     |-> prompt,
      messages   |-> << [role |-> "user", content |-> SYSTEM_PROMPT] >> ]

\* the arguments of client.messages.create
CreateArgs(prompt) ==
    [ model      |-> "claude-sonnet-4-20250514",
      max_tokens |-> max_tokens,
      system     |-> SYSTEM_PROMPT,
      messages   |-> << [role |-> "user", content |-> prompt] >> ]

(* What the provider can produce for a call: a Message with a sequence of  *)
(* content blocks, or an exception.  The text the provider generates is a  *)
(* function of the user content it was sent and of a variant the provider  *)
(* chooses, so that the output for one prompt is told from the output for  *)
(* another.                                                                *)

Variants == {"X", "Y"}

Generate(variant, args) == <<variant, "re:">> \o args.messages[1].content

TextBlock(text) == [type |-> "text", text |-> text]
ToolUseBlock    == [type |-> "tool_use", text |-> <<>>]

Blocks(args) == { TextBlock(Generate(v, args)) : v \in Variants } \cup { ToolUseBlock }

RECURSIVE SeqsUpTo(_, _)
SeqsUpTo(S, k) ==
    IF k = 0 THEN { <<>> }
    ELSE LET shorter == SeqsUpTo(S, k - 1)
         IN  shorter \cup { Append(q, x) : q \in shorter, x \in S }

Returned(content) == [kind |-> "message", content |-> content, exc |-> "", msg |-> <<>>]
Raised(exc, msg)  == [kind |-> "raise", content |-> <<>>, exc |-> exc, msg |-> msg]
NoMessage         == [kind |-> "none", content |-> <<>>, exc |-> "", msg |-> <<>>]

\* exception classes of the anthropic package the call can raise, and some messages
ProviderErrors ==
    { Raised("AuthenticationError", <<"invalid x-api-key">>),
      Raised("RateLimitError", <<"rate_limit_error">>),
      Raised("APIConnectionError", <<"Connection error.">>),
      Raised("InternalServerError", <<>>),
      Raised("InternalServerError", <<"overloaded">>) }

Outcomes(args, maxBlocks) ==
    { Returned(c) : c \in SeqsUpTo(Blocks(args), maxBlocks) } \cup ProviderErrors

\* FirstText that looks for the earliest text block instead of taking block 0
FirstText_earliest(content) ==
    LET texts == { i \in DOMAIN content : content[i].type = "text" }
    IN  IF texts = {}
        THEN Raised("IndexError", <<"list index out of range">>)
        ELSE [kind |-> "value", content |-> <<>>, exc |-> "",
              msg |-> content[CHOOSE i \in texts : \A k \in texts : i <= k].text]

(* message.content[0].text, line 304: the value, or the exception the      *)
(* subscript or the attribute access raises.                               *)
FirstText(content) ==
    IF content = <<>>
    THEN Raised("IndexError", <<"list index out of range">>)
    ELSE IF content[1].type # "text"
    THEN Raised("AttributeError", <<"object has no attribute 'text'">>)
    ELSE [kind |-> "value", content |-> <<>>, exc |-> "", msg |-> content[1].text]

HTTPException(status_code, detail) ==
    [code |-> status_code, body |-> [detail |-> detail]]

\* Except with the generic clause tried first
Except_generic_first(e) ==
    HTTPException(500, <<"AI_ANALYSIS_ERROR: ">> \o e.msg)

\* Except without the clause for RateLimitError
Except_no_rate_limit(e) ==
    IF e.exc = "AuthenticationError"
    THEN HTTPException(401, <<"API_KEY_INVALID">>)
    ELSE HTTPException(500, <<"AI_ANALYSIS_ERROR: ">> \o e.msg)

\* Except whose generic clause drops str(e)
Except_no_message(e) ==
    IF e.exc = "AuthenticationError"
    THEN HTTPException(401, <<"API_KEY_INVALID">>)
    ELSE IF e.exc = "RateLimitError"
    THEN HTTPException(429, <<"RATE_LIMIT_EXCEEDED_RETRY_LATER">>)
    ELSE HTTPException(500, <<"AI_ANALYSIS_ERROR: ">>)

\* the except clauses of call_claude, lines 307-312, tried in order
Except(e) ==
    IF e.exc = "AuthenticationError"
    THEN HTTPException(401, <<"API_KEY_INVALID">>)
    ELSE IF e.exc = "RateLimitError"
    THEN HTTPException(429, <<"RATE_LIMIT_EXCEEDED_RETRY_LATER">>)
    ELSE HTTPException(500, <<"AI_ANALYSIS_ERROR: ">> \o e.msg)

\* call_claude that reads the last content block, message.content[-1].text
call_claude_last(out) ==
    IF out.kind = "raise" THEN Except(out)
    ELSE LET result == FirstText(IF out.content = <<>> THEN <<>>
                                 ELSE <<out.content[Len(out.content)]>>)
         IN  IF result.kind = "raise" THEN Except(result)
             ELSE [code |-> 200, body |-> [status |-> <<"ok">>, result |-> result.msg]]

\* the body of call_claude after client.messages.create produced `out`
call_claude(out) ==
    IF out.kind = "raise" THEN Except(out)
    ELSE LET result == FirstText(out.content)
         IN  IF result.kind = "raise" THEN Except(result)
             ELSE [code |-> 200, body |-> [status |-> <<"ok">>, result |-> result.msg]]

----------------------------------------------------------------------------
(* Requests.                                                               *)

Request(method, path, body) == [method |-> method, path |-> path, body |-> body]
NoRequest  == Request("", "", << >>)
NoResponse == [code |-> 0, body |-> << >>]

\* the JSON values tried for a field of the given type
Choices(type) ==
    IF type = "int"
    THEN { Absent, PyNone, PyInt(100), PyStr(<<"1", "2">>), PyStr(<<"abc">>) }
    ELSE { Absent, PyNone, PyStr(<<>>), PyStr(<<"a">>) }

AllValues == Choices("int") \cup Choices("str")

Bodies(path) ==
    { b \in [FieldNames(path) -> AllValues] :
        \A name \in FieldNames(path) : b[name] \in Choices(FieldOf(path, name).type) }

Gets == { Request("GET", path, << >>) : path \in GetPaths }

\* every request of the bounded input space
AllInputs ==
    Gets \cup UNION { { Request("POST", path, b) : b \in Bodies(path) } : path \in PostPaths }

\* body with the fields of `given` set and every other field absent
Body(path, given) ==
    [name \in FieldNames(path) |->
        IF name \in DOMAIN given THEN given[name] ELSE Absent]

\* a few requests to different endpoints with different payloads
SampleInputs ==
    Gets \cup
    { Request("POST", "/api/topic",
              Body("/api/topic", [topic |-> PyStr(<<"a">>)])),
      Request("POST", "/api/abstract",
              Body("/api/abstract", [topic |-> PyStr(<<"b">>), word_count |-> PyInt(100)])),
      Request("POST", "/api/review-response",
              Body("/api/review-response", [topic |-> PyStr(<<"c">>)])) }

----------------------------------------------------------------------------
(* The service.  One process runs one event loop.  The handlers of the      *)
(* POST routes are coroutines (async def) that call the synchronous        *)
(* client: from client.messages.create until it returns or raises, the     *)
(* event loop thread is inside that call.  The GET handlers are plain      *)
(* functions, which the event loop hands to a worker thread and awaits.    *)

Init ==
    /\ req = [r \in Reqs |-> NoRequest]
    /\ pc = [r \in Reqs |-> "idle"]
    /\ loop = 0
    /\ sent = [r \in Reqs |-> << >>]
    /\ message = [r \in Reqs |-> NoMessage]
    /\ response = [r \in Reqs |-> NoResponse]
    /\ overlapped = FALSE

\* a client sends a request; it waits for the event loop to take it up
Arrive(r, inputs) ==
    /\ pc[r] = "idle"
    /\ \E i \in inputs : req' = [req EXCEPT ![r] = i]
    /\ pc' = [pc EXCEPT ![r] = "queued"]
    /\ overlapped' = (overlapped \/ loop # 0)
    /\ UNCHANGED <<loop, sent, message, response>>

\* the event loop can take up request r
Ready(r) ==
    /\ pc[r] = "queued"
    /\ loop = 0

Respond(r, resp) ==
    /\ response' = [response EXCEPT ![r] = resp]
    /\ pc' = [pc EXCEPT ![r] = "responded"]

RootResponse ==
    [code |-> 200,
     body |-> [service |-> <<"SERVICE_NAME">>, status |-> <<"running">>,
               version |-> <<"1.0">>]]

\* HealthResponse with the status of the root record
HealthResponse_running == [code |-> 200, body |-> [status |-> <<"running">>]]

HealthResponse == [code |-> 200, body |-> [status |-> <<"ok">>]]

root(r) ==
    /\ Ready(r)
    /\ req[r].method = "GET" /\ req[r].path = "/"
    /\ Respond(r, RootResponse)
    /\ UNCHANGED <<req, loop, sent, message, overlapped>>

health(r) ==
    /\ Ready(r)
    /\ req[r].method = "GET" /\ req[r].path = "/health"
    /\ Respond(r, HealthResponse)
    /\ UNCHANGED <<req, loop, sent, message, overlapped>>

\* the body does not fit the handler's request model: the handler is not run
ValidationError(r) ==
    /\ Ready(r)
    /\ req[r].method = "POST"
    /\ ~Valid(req[r].path, req[r].body)
    /\ Respond(r, HTTPException(422, <<"validation error">>))
    /\ UNCHANGED <<req, loop, sent, message, overlapped>>

\* the handler builds its prompt and call_claude enters client.messages.create
Create(r) ==
    /\ Ready(r)
    /\ req[r].method = "POST"
    /\ Valid(req[r].path, req[r].body)
    /\ LET prompt == Prompt(req[r].path, Parse(req[r].path, req[r].body))
       IN  sent' = [sent EXCEPT ![r] = Append(@, CreateArgs(prompt))]
    /\ pc' = [pc EXCEPT ![r] = "calling"]
    /\ loop' = r
    /\ UNCHANGED <<req, message, response, overlapped>>

\* client.messages.create returns or raises, and call_claude finishes
Return(r, maxBlocks) ==
    /\ pc[r] = "calling"
    /\ loop = r
    /\ \E out \in Outcomes(sent[r][Len(sent[r])], maxBlocks) :
          /\ message' = [message EXCEPT ![r] = out]
          /\ Respond(r, call_claude(out))
    /\ loop' = 0
    /\ UNCHANGED <<req, sent, overlapped>>

\* the steps by which the service takes up a waiting request
Serve(r) == root(r) \/ health(r) \/ ValidationError(r) \/ Create(r)

Next ==
    \E r \in Reqs :
        \/ Arrive(r, SampleInputs)
        \/ root(r)
        \/ health(r)
        \/ ValidationError(r)
        \/ Create(r)
        \/ Return(r, MaxBlocksConc)

Spec == Init /\ [][Next]_vars

\* one request at a time, over the whole input space
NextOne ==
    \/ Arrive(1, AllInputs)
    \/ root(1)
    \/ health(1)
    \/ ValidationError(1)
    \/ Create(1)
    \/ Return(1, MaxBlocks)

SpecOne == Init /\ [][NextOne]_vars

----------------------------------------------------------------------------
(* Properties                                                              *)

IsPost(r) == req[r].method = "POST"

Accepted(r) == IsPost(r) /\ Valid(req[r].path, req[r].body)

Responded(r) == pc[r] = "responded"

\* the prompt the handler builds for r's own request
OwnPrompt(r) == Prompt(req[r].path, Parse(req[r].path, req[r].body))

\* the provider's reply to r starts with a text block
StartsWithText(r) ==
    /\ message[r].kind = "message"
    /\ message[r].content # << >>
    /\ message[r].content[1].type = "text"

\* sub is a contiguous part of str
Contains(str, sub) ==
    \E i \in 0..(Len(str) - Len(sub)) : SubSeq(str, i + 1, i + Len(sub)) = sub

\* C1: on each POST endpoint, for every valid request, when the provider
\* call returns text X the response is HTTP 200 with the body
\* {"status": "ok", "result": X} and no other field.
C1_SuccessVerbatim ==
    \A r \in Reqs :
        (Responded(r) /\ Accepted(r) /\ StartsWithText(r)) =>
            /\ response[r].code = 200
            /\ DOMAIN response[r].body = {"status", "result"}
            /\ response[r].body.status = <<"ok">>
            /\ response[r].body.result = message[r].content[1].text

C1_Witness ==
    /\ Responded(1) /\ req[1].path = "/api/journal" /\ StartsWithText(1)
    /\ Len(message[1].content) = 2
    /\ response[1].code = 200

\* C2: whenever the provider call raises the authentication failure, the
\* request ends with HTTP 401 and a non-empty detail, never with a
\* {"status": "ok"} body.
C2_AuthIs401 ==
    \A r \in Reqs :
        (Responded(r) /\ message[r].kind = "raise"
                      /\ message[r].exc = "AuthenticationError") =>
            /\ response[r].code = 401
            /\ DOMAIN response[r].body = {"detail"}
            /\ response[r].body.detail # << >>

C2_Witness ==
    /\ Responded(1) /\ req[1].path = "/api/structure"
    /\ message[1].exc = "AuthenticationError"
    /\ response[1].code = 401

\* C3: whenever the provider call raises the rate-limit condition, the
\* request ends with HTTP 429, and call_claude has called the provider
\* exactly once for that request.
C3_RateLimitIs429Once ==
    \A r \in Reqs :
        (Responded(r) /\ message[r].kind = "raise"
                      /\ message[r].exc = "RateLimitError") =>
            /\ response[r].code = 429
            /\ Len(sent[r]) = 1

C3_Witness ==
    /\ Responded(1) /\ req[1].path = "/api/introduction"
    /\ message[1].exc = "RateLimitError"
    /\ response[1].code = 429

\* the provider call of r failed otherwise than by authentication or rate limit
OtherFailure(r) ==
    \/ /\ message[r].kind = "raise"
       /\ message[r].exc \notin {"AuthenticationError", "RateLimitError"}
    \/ /\ message[r].kind = "message"
       /\ ~StartsWithText(r)

\* C4: any failure of the call other than authentication and rate limit,
\* a failure to extract the text included, ends the request with HTTP 500
\* whose detail is the fixed prefix followed by the failure's message.
C4_OtherIs500 ==
    \A r \in Reqs :
        (Responded(r) /\ OtherFailure(r)) =>
            /\ response[r].code = 500
            /\ DOMAIN response[r].body = {"detail"}
            /\ Len(response[r].body.detail) >= 1
            /\ message[r].kind = "raise" =>
                  Tail(response[r].body.detail) = message[r].msg
            /\ message[r].kind = "message" =>
                  Tail(response[r].body.detail) # << >>

C4_Witness ==
    /\ Responded(1) /\ req[1].path = "/api/literature"
    /\ message[1].kind = "message" /\ message[1].content = << >>
    /\ response[1].code = 500

\* the text spec section 6 declares for an omitted optional field, as the
\* line of the prompt that shows it
DeclaredLine(name) ==
    CASE name \in {"field", "keywords", "purpose", "methodology"}
                                -> <<"L:" \o name, "UNSPECIFIED", NL>>
      [] name = "known_papers"  -> <<"L:known_papers", "NONE_KO", NL>>
      [] name = "scope"         -> <<"L:scope", "RECENT_5_YEARS", NL>>
      [] name = "paper_type"    -> <<"L:paper_type", "ORIGINAL_ARTICLE", NL>>
      [] name = "language"      -> <<"L:language", "KOREAN", NL>>
      [] name = "word_count"    -> <<"L:word_count", "2", "5", "0", "WORDS", NL>>
      [] name = "index_type"    -> <<"L:index_type", "SCI/SCIE", NL>>

\* the fields section 6 requires
RequiredFields(path) ==
    IF path = "/api/review-response" THEN {"topic", "reviewer_comment"} ELSE {"topic"}

Omitted(r) ==
    { name \in FieldNames(req[r].path) \ RequiredFields(req[r].path) :
        req[r].body[name] = Absent }

\* C5: for a request that supplies the required fields and omits optional
\* ones, the prompt passed to the provider shows the declared default or
\* placeholder of every omitted field, and the provider is called exactly
\* once.
C5_DefaultsInPrompt ==
    \A r \in Reqs :
        (Accepted(r) /\ pc[r] \in {"calling", "responded"}) =>
            /\ Len(sent[r]) = 1
            /\ \A name \in Omitted(r) :
                  Contains(sent[r][1].messages[1].content, DeclaredLine(name))

C5_Witness ==
    /\ Responded(1) /\ req[1].path = "/api/abstract" /\ Accepted(1)
    /\ Omitted(1) = {"field", "keywords", "word_count", "language"}
    /\ Len(sent[1]) = 1

\* r's request lacks a field section 6 requires
LacksRequired(r) ==
    /\ IsPost(r)
    /\ \E name \in RequiredFields(req[r].path) : req[r].body[name] = Absent

\* C6: a request that lacks a required field is rejected before the
\* provider is called: no call is ever issued for it and its response is
\* not a success.
C6_RequiredRejected ==
    \A r \in Reqs :
        LacksRequired(r) =>
            /\ sent[r] = << >>
            /\ pc[r] # "calling"
            /\ Responded(r) =>
                  /\ response[r].code # 200
                  /\ "status" \notin DOMAIN response[r].body

C6_Witness ==
    /\ Responded(1) /\ req[1].path = "/api/review-response"
    /\ req[1].body["topic"] = PyStr(<<"a">>)
    /\ req[1].body["reviewer_comment"] = Absent
    /\ response[1].code = 422

\* C7: GET /health returns {"status": "ok"} and never calls the provider,
\* whatever the provider did and whatever other requests failed or are in
\* flight.
C7_HealthStatic ==
    \A r \in Reqs :
        (req[r].method = "GET" /\ req[r].path = "/health") =>
            /\ sent[r] = << >>
            /\ pc[r] # "calling"
            /\ Responded(r) =>
                  /\ response[r].code = 200
                  /\ response[r].body = [status |-> <<"ok">>]

C7_Witness ==
    \E r, s \in Reqs :
        /\ req[r].path = "/health" /\ Responded(r)
        /\ overlapped
        /\ Responded(s) /\ response[s].code = 401

\* C8: with requests to different endpoints in flight together, each
\* request's provider call carries that request's own prompt, and each
\* result is the provider's output for that prompt.
C8_NoInterference ==
    \A r \in Reqs :
        (Accepted(r) /\ pc[r] \in {"calling", "responded"}) =>
            /\ Len(sent[r]) = 1
            /\ sent[r][1].messages = << [role |-> "user", content |-> OwnPrompt(r)] >>
            /\ (Responded(r) /\ response[r].code = 200) =>
                  \E v \in Variants :
                      response[r].body.result = <<v, "re:">> \o OwnPrompt(r)

C8_Witness ==
    \E r, s \in Reqs :
        /\ r # s /\ req[r].path # req[s].path
        /\ Accepted(r) /\ Accepted(s)
        /\ Responded(r) /\ Responded(s)
        /\ overlapped
        /\ response[r].code = 200 /\ response[s].code = 200
        /\ response[r].body.result # response[s].body.result

\* the positions of the text blocks of a content sequence
TextPositions(content) == { i \in DOMAIN content : content[i].type = "text" }

Min(S) == CHOOSE x \in S : \A y \in S : x <= y

\* C9 as stated: on a successful provider call the result is the text of
\* the earliest block that is a text block, for every response shape.
C9_EarliestTextBlock ==
    \A r \in Reqs :
        (Responded(r) /\ message[r].kind = "message"
                      /\ TextPositions(message[r].content) # {}) =>
            /\ response[r].code = 200
            /\ response[r].body.result =
                  message[r].content[Min(TextPositions(message[r].content))].text

\* C9 as amended: on a successful provider call the result is the text of
\* the first content block when that block is a text block; when the
\* content is empty or its first block is not a text block the request ends
\* with HTTP 500, also when a later block is a text block.
C9_FirstBlockText ==
    \A r \in Reqs :
        (Responded(r) /\ message[r].kind = "message") =>
            IF TextPositions(message[r].content) # {}
               /\ Min(TextPositions(message[r].content)) = 1
            THEN /\ response[r].code = 200
                 /\ response[r].body.result = message[r].content[1].text
            ELSE response[r].code = 500

C9_Witness ==
    /\ Responded(1) /\ message[1].kind = "message"
    /\ Len(message[1].content) = 2
    /\ message[1].content[1].type = "tool_use"
    /\ message[1].content[2].type = "text"
    /\ response[1].code = 500

\* C10: while one request's provider call is outstanding, any other request
\* that is waiting can be taken up and make progress without waiting for
\* that call to return.
C10_OthersProgress ==
    \A r, s \in Reqs :
        (r # s /\ pc[r] = "calling" /\ pc[s] = "queued") => ENABLED Serve(s)

====
